---- MODULE Spec2Model ----
(***************************************************************************)
(* Model of the smart-cart server (src/index.js; src/unnamed/part_000 is   *)
(* the same server with logging).  The state is the in-memory cart store   *)
(* `carts`, the arrays it refers to (`heap`: JavaScript arrays are shared  *)
(* by reference and mutated in place), the wall clock read by Date.now()   *)
(* and new Date(), the requests received and not yet answered, and three   *)
(* history variables: the receipt objects built by checkouts, the last     *)
(* request with its response and the requests answered while others were   *)
(* waiting.  Strings that the code inspects character by character (tag    *)
(* ids) are sequences of one-character strings; a value that may be absent *)
(* is a sequence of at most one element.                                   *)
(***************************************************************************)
EXTENDS Integers, Sequences, FiniteSets, TLC

VARIABLES carts, heap, receipts, now, last, inflight, handled

vars == <<carts, heap, receipts, now, last, inflight, handled>>

(* ------------------------------ bounds --------------------------------- *)

\* The clock takes the values 0..MaxClock.
MaxClock == 1

\* At most MaxReceipts receipts are kept in the history of sent receipts.
MaxReceipts == 2

\* At most MaxRequests requests are received by the server that answers
\* requests while others are waiting.
MaxRequests == 3

(* ------------------------- JavaScript values --------------------------- *)

\* A missing body field or property (undefined), and a present one.
None == <<>>
Some(v) == <<v>>

\* Property names that the object literal {} inherits from Object.prototype
\* (a sample): carts[k] is a function, truthy and not a cart, for such a k
\* until a cart is stored under k.
InheritedKeys == {"constructor"}

Lower == <<"a", "b", "c", "d", "e", "f", "z">>
Upper == <<"A", "B", "C", "D", "E", "F", "Z">>

\* String.prototype.toUpperCase on one character.
ToUpperChar(c) ==
  IF \E i \in 1..Len(Lower) : Lower[i] = c
  THEN Upper[CHOOSE i \in 1..Len(Lower) : Lower[i] = c]
  ELSE c

\* The characters matched by the regular expression \s.
Whitespace == {" ", "\t"}

NotSpace(c) == c \notin Whitespace

\* tag_id.toUpperCase() alone: the whitespace stays.
UpperCaseOnly(tag) == [i \in 1..Len(tag) |-> ToUpperChar(tag[i])]

\* tag_id.toUpperCase().replace(/\s+/g, "")
Normalize(tag) ==
  SelectSeq([i \in 1..Len(tag) |-> ToUpperChar(tag[i])], NotSpace)

(* ------------------------------ catalog -------------------------------- *)

products ==
  (<<"A","1","B","2","C","3","D","4">> :>
      [name |-> "Milk (1L)", price |-> 40, category |-> "Dairy"]) @@
  (<<"1","1","2","2","3","3","4","4">> :>
      [name |-> "Bread (White)", price |-> 30, category |-> "Bakery"]) @@
  (<<"5","5","6","6","7","7","8","8">> :>
      [name |-> "Rice (1kg)", price |-> 65, category |-> "Grains"]) @@
  (<<"A","A","B","B","C","C","D","D">> :>
      [name |-> "Eggs (6 pcs)", price |-> 48, category |-> "Dairy"]) @@
  (<<"9","9","8","8","7","7","6","6">> :>
      [name |-> "Butter (100g)", price |-> 55, category |-> "Dairy"]) @@
  (<<"D","E","A","D","B","E","E","F">> :>
      [name |-> "Apple Juice (500ml)", price |-> 80, category |-> "Beverages"]) @@
  (<<"C","A","F","E","B","A","B","E">> :>
      [name |-> "Biscuits (200g)", price |-> 25, category |-> "Snacks"]) @@
  (<<"F","0","0","D","C","A","F","E">> :>
      [name |-> "Chips (150g)", price |-> 35, category |-> "Snacks"])

(* ------------------------------ inputs --------------------------------- *)

\* Raw tag strings a client can send.
MilkTag == <<"a","1","b","2","c","3","d","4">>
MilkTagSpaced == <<"A","1","B","2"," ","C","3","D","4">>
BreadTag == <<"1","1","2","2","3","3","4","4">>
UnknownTag == <<"Z","Z","Z","Z","Z","Z","Z","Z">>
BlankTag == <<" ">>
EmptyTag == <<>>

TagStrings == {MilkTag, MilkTagSpaced, BreadTag, UnknownTag, BlankTag, EmptyTag}

\* The tag_id of a scan body: a string or missing.
ScanTags == {None} \cup {Some(s) : s \in TagStrings}

\* The :tagId parameter of a route: the router matches one or more characters.
PathTags == TagStrings \ {EmptyTag}

\* Cart ids a client can send.
CartIds == {"default", "c1", "constructor"}

\* The cart_id of a scan body: a string or missing.
ScanCartIds == {None} \cup {Some(c) : c \in CartIds}

\* The JSON bodies of POST /api/scan.
ScanBodies == [tag_id : ScanTags, cart_id : ScanCartIds]

Body(tag_id, cart_id) == [tag_id |-> tag_id, cart_id |-> cart_id]

\* The requests that drive Spec: the cart "default" receives two products
\* under both spellings of a tag, the cart "c1" one product, and every kind
\* of rejected body is sent.
ScanSent ==
  { Body(Some(MilkTag), Some("default")),
    Body(Some(MilkTagSpaced), Some("default")),
    Body(Some(BreadTag), None),
    Body(Some(MilkTag), Some("c1")),
    Body(Some(UnknownTag), Some("c1")),
    Body(Some(BlankTag), Some("c1")),
    Body(Some(EmptyTag), Some("c1")),
    Body(None, Some("c1")) }

PathSent == {MilkTag, UnknownTag}

\* The requests that drive SpecReceipts, which keeps the receipts built.
ScanKept == {Body(Some(MilkTag), None), Body(Some(BreadTag), Some("c1"))}

PathKept == {MilkTag}

CartIdsKept == {"default", "c1"}

(* --------------------------- arrays and heap --------------------------- *)

\* The identity of an array: the expression that created it (`by`: a cart's
\* items: [] under cart id `key`, or the copy [...cart.items] of a receipt)
\* and a number telling apart the arrays of one expression that are in use
\* at the same time.  An array that nothing refers to any more is dropped.
Address(by, key, n) == [by |-> by, key |-> key, n |-> n]

\* The arrays in use: those of the stored carts and of the receipts R.
InUse(C, R) ==
  {C[k].items : k \in DOMAIN C} \cup {R[i].items : i \in 1..Len(R)}

\* A new array: an identity that no array in use has.
NewArray(used, by, key) ==
  Address(by, key,
          CHOOSE n \in 0..Cardinality(used) :
            /\ Address(by, key, n) \notin used
            /\ \A m \in 0..(n - 1) : Address(by, key, m) \in used)

\* The heap without the arrays nothing refers to.
Collect(C, H, R) == [a \in InUse(C, R) |-> H[a]]

\* A findIndex whose callback compares the wrong field: it never matches.
FindIndexNoMatch(items, tag) == 0

\* Array.prototype.findIndex(item => item.tag_id === tag): the first index
\* (from 1) of an entry with that tag_id, 0 (JavaScript: -1) without one.
FindIndex(items, tag) ==
  IF \E i \in 1..Len(items) : items[i].tag_id = tag
  THEN CHOOSE i \in 1..Len(items) :
         /\ items[i].tag_id = tag
         /\ \A j \in 1..(i - 1) : items[j].tag_id # tag
  ELSE 0

\* splice(index) without the delete count: everything from index on goes.
SpliceToEnd(items, index) == SubSeq(items, 1, index - 1)

\* Array.prototype.splice(index, 1): the array without its entry at index.
Splice(items, index) ==
  [j \in 1..(Len(items) - 1) |-> IF j < index THEN items[j] ELSE items[j + 1]]

\* unshift in the place of push: the item goes to the front.
Unshift(items, item) == <<item>> \o items

\* Array.prototype.push(item)
Push(items, item) == Append(items, item)

(* ------------------------------ the store ------------------------------ *)

\* The program's objects: the cart store, the arrays, the receipts built.
World(C, H, R) == [carts |-> C, heap |-> H, receipts |-> R]

\* carts[cartId] is a cart (an own property of the store).
IsCart(C, cartId) == cartId \in DOMAIN C

\* A lookup that never finds a cart: getCart creates one on every call.
IsMissingAlways(C, cartId) == TRUE

\* carts[cartId] is falsy: neither an own nor an inherited property.
IsMissing(C, cartId) == cartId \notin DOMAIN C /\ cartId \notin InheritedKeys

\* carts[cartId] = cart
Put(C, cartId, cart) ==
  [k \in DOMAIN C \cup {cartId} |-> IF k = cartId THEN cart ELSE C[k]]

\* { id: cartId, items: [], total: 0, createdAt: new Date().toISOString() }
\* with its items array at address a.
EmptyCart(cartId, a, t) ==
  [id |-> cartId, items |-> a, total |-> 0, createdAt |-> t]

\* getCart(cartId): the world afterwards; carts[cartId] is then what getCart
\* returns (a cart, or the inherited property).
GetCart(W, cartId, t) ==
  IF IsMissing(W.carts, cartId)
  THEN LET a == NewArray(InUse(W.carts, W.receipts), "cart", cartId)
       IN  World(Put(W.carts, cartId, EmptyCart(cartId, a, t)),
                 (a :> <<>>) @@ W.heap,
                 W.receipts)
  ELSE W

(* ------------------------------ responses ------------------------------ *)

\* JSON.stringify of a cart: the array is written out.
CartJson(cart, H) ==
  [id |-> cart.id, items |-> H[cart.items], total |-> cart.total,
   createdAt |-> cart.createdAt]

\* JSON.stringify of a receipt.
ReceiptJson(receipt, H) ==
  [receiptId |-> receipt.receiptId, items |-> H[receipt.items],
   total |-> receipt.total, itemCount |-> receipt.itemCount,
   checkoutTime |-> receipt.checkoutTime]

\* A response: the HTTP status and the fields of the JSON body (a field the
\* body does not have is "", 0 or None).
Response(status) ==
  [status |-> status, error |-> "", message |-> "", action |-> "",
   product |-> "", price |-> 0, cart_total |-> 0, cart_items |-> 0,
   cart |-> None, receipt |-> None]

\* res.status(status).json({ error })
ErrorResponse(status, error) == [Response(status) EXCEPT !.error = error]

\* The handler threw (a TypeError): the framework answers 500.
Thrown == Response(500)

\* What a handler leaves: the world, the response sent and the receipt
\* object it built (None without one).
Outcome(W, res, built) == [world |-> W, res |-> res, built |-> built]

(* ------------------------------ handlers ------------------------------- *)
\* Every handler runs to completion without yielding, and the clock is read
\* as one value t for the whole handler.

\* A toggle whose new item takes name and category from each other's
\* fields.
ScanToggleSwapped(W, normalizedTag, cart_id, t) ==
  LET product == products[normalizedTag]
      W1      == GetCart(W, cart_id, t)
  IN
  IF ~IsCart(W1.carts, cart_id)
  THEN Outcome(W1, Thrown, None)   \* cart.items is undefined: findIndex throws
  ELSE
  LET cart          == W1.carts[cart_id]
      items         == W1.heap[cart.items]
      existingIndex == FindIndex(items, normalizedTag)
      item          == [tag_id    |-> normalizedTag,
                        name      |-> product.category,
                        price     |-> product.price,
                        category  |-> product.name,
                        scannedAt |-> t]
      items2        == IF existingIndex # 0
                       THEN Splice(items, existingIndex)
                       ELSE Push(items, item)
      total2        == IF existingIndex # 0
                       THEN cart.total - product.price
                       ELSE cart.total + product.price
      action        == IF existingIndex # 0 THEN "removed" ELSE "added"
      cart2         == [cart EXCEPT !.total = total2]
      H2            == [W1.heap EXCEPT ![cart.items] = items2]
  IN
  Outcome(World(Put(W1.carts, cart_id, cart2), H2, W1.receipts),
          [Response(200) EXCEPT !.action     = action,
                                !.product    = product.name,
                                !.price      = product.price,
                                !.cart_total = cart2.total,
                                !.cart_items = Len(H2[cart2.items]),
                                !.cart       = Some(CartJson(cart2, H2))],
          None)

\* POST /api/scan, from getCart on: the toggle of normalizedTag in the cart.
ScanToggle(W, normalizedTag, cart_id, t) ==
  LET product == products[normalizedTag]
      W1      == GetCart(W, cart_id, t)
  IN
  IF ~IsCart(W1.carts, cart_id)
  THEN Outcome(W1, Thrown, None)   \* cart.items is undefined: findIndex throws
  ELSE
  LET cart          == W1.carts[cart_id]
      items         == W1.heap[cart.items]
      existingIndex == FindIndex(items, normalizedTag)
      item          == [tag_id    |-> normalizedTag,
                        name      |-> product.name,
                        price     |-> product.price,
                        category  |-> product.category,
                        scannedAt |-> t]
      items2        == IF existingIndex # 0
                       THEN Splice(items, existingIndex)
                       ELSE Push(items, item)
      total2        == IF existingIndex # 0
                       THEN cart.total - product.price
                       ELSE cart.total + product.price
      action        == IF existingIndex # 0 THEN "removed" ELSE "added"
      cart2         == [cart EXCEPT !.total = total2]
      H2            == [W1.heap EXCEPT ![cart.items] = items2]
  IN
  Outcome(World(Put(W1.carts, cart_id, cart2), H2, W1.receipts),
          [Response(200) EXCEPT !.action     = action,
                                !.product    = product.name,
                                !.price      = product.price,
                                !.cart_total = cart2.total,
                                !.cart_items = Len(H2[cart2.items]),
                                !.cart       = Some(CartJson(cart2, H2))],
          None)

\* A scan that ignores cart_id.
CartIdIgnored(body) == "default"

\* const { tag_id, cart_id = "default" } = req.body
CartIdOf(body) == IF body.cart_id = None THEN "default" ELSE body.cart_id[1]

\* !tag_id.trim(): a tag of whitespace counts as missing (and a missing
\* one too).
NoTagTrimmed(body) ==
  body.tag_id = None \/ SelectSeq(body.tag_id[1], NotSpace) = <<>>

\* !tag_id
NoTag(body) == body.tag_id = None \/ body.tag_id[1] = EmptyTag

\* A scan that fetches the cart first and validates afterwards.
ScanHandlerCartFirst(W, body, t) ==
  LET W0 == GetCart(W, CartIdOf(body), t) IN
  IF NoTag(body)
  THEN Outcome(W0, ErrorResponse(400, "tag_id is required"), None)
  ELSE
  LET normalizedTag == Normalize(body.tag_id[1]) IN
  IF normalizedTag \notin DOMAIN products
  THEN Outcome(W0, ErrorResponse(404, "Unknown product"), None)
  ELSE ScanToggle(W0, normalizedTag, CartIdOf(body), t)

\* POST /api/scan with the JSON body `body`.
ScanHandler(W, body, t) ==
  IF NoTag(body)
  THEN Outcome(W, ErrorResponse(400, "tag_id is required"), None)
  ELSE
  LET normalizedTag == Normalize(body.tag_id[1]) IN
  IF normalizedTag \notin DOMAIN products
  THEN Outcome(W, ErrorResponse(404, "Unknown product"), None)
  ELSE ScanToggle(W, normalizedTag, CartIdOf(body), t)

\* GET /api/cart/:cartId
CartHandler(W, cartId, t) ==
  LET W1 == GetCart(W, cartId, t) IN
  Outcome(W1,
          [Response(200) EXCEPT !.cart =
             IF IsCart(W1.carts, cartId)
             THEN Some(CartJson(W1.carts[cartId], W1.heap))
             ELSE None],   \* JSON.stringify leaves a function-valued field out
          None)

\* The store without the entry of cartId.
Without(C, cartId) == [k \in DOMAIN C \ {cartId} |-> C[k]]

\* A clear that empties the items of getCart(cartId) and keeps the rest of
\* the cart: cart.items = [].
ClearHandlerItemsOnly(W, cartId, t) ==
  LET W1 == GetCart(W, cartId, t) IN
  IF ~IsCart(W1.carts, cartId)
  THEN Outcome(W1, Thrown, None)
  ELSE
  LET a  == NewArray(InUse(Without(W1.carts, cartId), W1.receipts), "cart", cartId)
      C2 == Put(W1.carts, cartId, [W1.carts[cartId] EXCEPT !.items = a])
      H2 == (a :> <<>>) @@ W1.heap
  IN
  Outcome(World(C2, H2, W1.receipts),
          [Response(200) EXCEPT !.message = "Cart cleared",
                                !.cart    = Some(CartJson(C2[cartId], H2))],
          None)

\* A clear that deletes the entry: delete carts[cartId].
ClearHandlerDeletes(W, cartId, t) ==
  Outcome(World(Without(W.carts, cartId), W.heap, W.receipts),
          [Response(200) EXCEPT !.message = "Cart cleared"],
          None)

\* POST /api/cart/:cartId/clear
ClearHandler(W, cartId, t) ==
  LET a  == NewArray(InUse(Without(W.carts, cartId), W.receipts), "cart", cartId)
      C2 == Put(W.carts, cartId, EmptyCart(cartId, a, t))
      H2 == (a :> <<>>) @@ W.heap
  IN
  Outcome(World(C2, H2, W.receipts),
          [Response(200) EXCEPT !.message = "Cart cleared",
                                !.cart    = Some(CartJson(C2[cartId], H2))],
          None)

\* A receipt that reads the cart after the reset: total 0 and no items.
BuildReceiptAfterReset(cart, items, copy, t) ==
  [receiptId    |-> <<"RCP-", t>>,
   items        |-> copy,
   total        |-> 0,
   itemCount    |-> 0,
   checkoutTime |-> t]

\* The receipt object of a checkout of `cart`, whose array holds `items`;
\* `copy` is the address of the array [...cart.items].
BuildReceipt(cart, items, copy, t) ==
  [receiptId    |-> <<"RCP-", t>>,
   items        |-> copy,
   total        |-> cart.total,
   itemCount    |-> Len(items),
   checkoutTime |-> t]

\* A checkout that hands the cart's own array to the receipt (items:
\* cart.items) and resets the cart in place (cart.items.length = 0;
\* cart.total = 0).
CheckoutHandlerShared(W, cartId, t) ==
  LET W1 == GetCart(W, cartId, t) IN
  IF ~IsCart(W1.carts, cartId)
  THEN Outcome(W1, Thrown, None)
  ELSE
  LET cart  == W1.carts[cartId]
      items == W1.heap[cart.items]
  IN
  IF Len(items) = 0
  THEN Outcome(W1, ErrorResponse(400, "Cart is empty"), None)
  ELSE
  LET receipt == BuildReceipt(cart, items, cart.items, t)
      C3      == Put(W1.carts, cartId, [cart EXCEPT !.total = 0])
      H3      == [W1.heap EXCEPT ![cart.items] = <<>>]
  IN
  Outcome(World(C3, H3, W1.receipts),
          [Response(200) EXCEPT !.receipt = Some(ReceiptJson(receipt, H3))],
          Some(receipt))

\* POST /api/cart/:cartId/checkout
CheckoutHandler(W, cartId, t) ==
  LET W1 == GetCart(W, cartId, t) IN
  IF ~IsCart(W1.carts, cartId)
  THEN Outcome(W1, Thrown, None)   \* cart.items is undefined: .length throws
  ELSE
  LET cart  == W1.carts[cartId]
      items == W1.heap[cart.items]
  IN
  IF Len(items) = 0
  THEN Outcome(W1, ErrorResponse(400, "Cart is empty"), None)
  ELSE
  LET copy    == NewArray(InUse(W1.carts, W1.receipts), "receipt", "")
      receipt == BuildReceipt(cart, items, copy, t)
      H2      == (copy :> items) @@ W1.heap
      a       == NewArray(InUse(Without(W1.carts, cartId), W1.receipts)
                            \cup {receipt.items},
                          "cart", cartId)
      C3      == Put(W1.carts, cartId, EmptyCart(cartId, a, t))
      H3      == (a :> <<>>) @@ H2
  IN
  Outcome(World(C3, H3, W1.receipts),
          [Response(200) EXCEPT !.receipt = Some(ReceiptJson(receipt, H3))],
          Some(receipt))

\* A simulate that works on another cart.
SimulateCartIdOther == "c1"

\* The cart that GET /api/simulate/:tagId works on.
SimulateCartId == "default"

\* GET /api/simulate/:tagId, from getCart on.
SimulateToggle(W, normalizedTag, t) ==
  LET product == products[normalizedTag]
      W1      == GetCart(W, SimulateCartId, t)
  IN
  IF ~IsCart(W1.carts, SimulateCartId)
  THEN Outcome(W1, Thrown, None)
  ELSE
  LET cart          == W1.carts[SimulateCartId]
      items         == W1.heap[cart.items]
      existingIndex == FindIndex(items, normalizedTag)
      item          == [tag_id    |-> normalizedTag,
                        name      |-> product.name,
                        price     |-> product.price,
                        category  |-> product.category,
                        scannedAt |-> t]
      items2        == IF existingIndex # 0
                       THEN Splice(items, existingIndex)
                       ELSE Push(items, item)
      total2        == IF existingIndex # 0
                       THEN cart.total - product.price
                       ELSE cart.total + product.price
      action        == IF existingIndex # 0 THEN "removed" ELSE "added"
      cart2         == [cart EXCEPT !.total = total2]
      H2            == [W1.heap EXCEPT ![cart.items] = items2]
  IN
  Outcome(World(Put(W1.carts, SimulateCartId, cart2), H2, W1.receipts),
          [Response(200) EXCEPT !.action     = action,
                                !.product    = product.name,
                                !.price      = product.price,
                                !.cart_total = cart2.total,
                                !.cart_items = Len(H2[cart2.items]),
                                !.cart       = Some(CartJson(cart2, H2))],
          None)

\* GET /api/simulate/:tagId
SimulateHandler(W, tagId, t) ==
  LET normalizedTag == Normalize(tagId) IN
  IF normalizedTag \notin DOMAIN products
  THEN Outcome(W, ErrorResponse(404, "Unknown product"), None)
  ELSE SimulateToggle(W, normalizedTag, t)

(* ----------------------- the handlers in two steps ---------------------- *)
\* Each handler first reads (validation, catalog lookup, getCart, the search
\* of the item list or the emptiness test) and then writes (the change of
\* the cart, the response).  Check is the first part, with the values the
\* handler holds in its local variables afterwards; Act is the second part.

\* The locals of a handler after its reads: the response already decided
\* (an early return or an exception; None without one), normalizedTag and
\* existingIndex.
Locals(early, normalizedTag, existingIndex) ==
  [early |-> early, normalizedTag |-> normalizedTag,
   existingIndex |-> existingIndex]

Checked(W, locals) == [world |-> W, locals |-> locals]

\* POST /api/scan up to const existingIndex = cart.items.findIndex(...)
ScanCheck(W, body, t) ==
  IF NoTag(body)
  THEN Checked(W, Locals(Some(ErrorResponse(400, "tag_id is required")), <<>>, 0))
  ELSE
  LET normalizedTag == Normalize(body.tag_id[1]) IN
  IF normalizedTag \notin DOMAIN products
  THEN Checked(W, Locals(Some(ErrorResponse(404, "Unknown product")),
                         normalizedTag, 0))
  ELSE
  LET W1 == GetCart(W, CartIdOf(body), t) IN
  IF ~IsCart(W1.carts, CartIdOf(body))
  THEN Checked(W1, Locals(Some(Thrown), normalizedTag, 0))
  ELSE Checked(W1, Locals(None, normalizedTag,
                          FindIndex(W1.heap[W1.carts[CartIdOf(body)].items],
                                    normalizedTag)))

\* POST /api/scan from let action on.
ScanAct(W, body, locals, t) ==
  IF locals.early # None
  THEN Outcome(W, locals.early[1], None)
  ELSE
  LET product == products[locals.normalizedTag]
      cart    == W.carts[CartIdOf(body)]
      items   == W.heap[cart.items]
      item    == [tag_id    |-> locals.normalizedTag,
                  name      |-> product.name,
                  price     |-> product.price,
                  category  |-> product.category,
                  scannedAt |-> t]
      items2  == IF locals.existingIndex # 0
                 THEN Splice(items, locals.existingIndex)
                 ELSE Push(items, item)
      total2  == IF locals.existingIndex # 0
                 THEN cart.total - product.price
                 ELSE cart.total + product.price
      action  == IF locals.existingIndex # 0 THEN "removed" ELSE "added"
      cart2   == [cart EXCEPT !.total = total2]
      H2      == [W.heap EXCEPT ![cart.items] = items2]
  IN
  Outcome(World(Put(W.carts, CartIdOf(body), cart2), H2, W.receipts),
          [Response(200) EXCEPT !.action     = action,
                                !.product    = product.name,
                                !.price      = product.price,
                                !.cart_total = cart2.total,
                                !.cart_items = Len(H2[cart2.items]),
                                !.cart       = Some(CartJson(cart2, H2))],
          None)

\* GET /api/simulate/:tagId up to const existingIndex = ...
SimulateCheck(W, tagId, t) ==
  LET normalizedTag == Normalize(tagId) IN
  IF normalizedTag \notin DOMAIN products
  THEN Checked(W, Locals(Some(ErrorResponse(404, "Unknown product")),
                         normalizedTag, 0))
  ELSE
  LET W1 == GetCart(W, SimulateCartId, t) IN
  IF ~IsCart(W1.carts, SimulateCartId)
  THEN Checked(W1, Locals(Some(Thrown), normalizedTag, 0))
  ELSE Checked(W1, Locals(None, normalizedTag,
                          FindIndex(W1.heap[W1.carts[SimulateCartId].items],
                                    normalizedTag)))

\* GET /api/simulate/:tagId from let action on.
SimulateAct(W, locals, t) ==
  IF locals.early # None
  THEN Outcome(W, locals.early[1], None)
  ELSE
  LET product == products[locals.normalizedTag]
      cart    == W.carts[SimulateCartId]
      items   == W.heap[cart.items]
      item    == [tag_id    |-> locals.normalizedTag,
                  name      |-> product.name,
                  price     |-> product.price,
                  category  |-> product.category,
                  scannedAt |-> t]
      items2  == IF locals.existingIndex # 0
                 THEN Splice(items, locals.existingIndex)
                 ELSE Push(items, item)
      total2  == IF locals.existingIndex # 0
                 THEN cart.total - product.price
                 ELSE cart.total + product.price
      action  == IF locals.existingIndex # 0 THEN "removed" ELSE "added"
      cart2   == [cart EXCEPT !.total = total2]
      H2      == [W.heap EXCEPT ![cart.items] = items2]
  IN
  Outcome(World(Put(W.carts, SimulateCartId, cart2), H2, W.receipts),
          [Response(200) EXCEPT !.action     = action,
                                !.product    = product.name,
                                !.price      = product.price,
                                !.cart_total = cart2.total,
                                !.cart_items = Len(H2[cart2.items]),
                                !.cart       = Some(CartJson(cart2, H2))],
          None)

\* POST /api/cart/:cartId/clear reads nothing of the store.
ClearCheck(W, cartId, t) == Checked(W, Locals(None, <<>>, 0))

\* POST /api/cart/:cartId/clear: the assignment and the response.
ClearAct(W, cartId, locals, t) == ClearHandler(W, cartId, t)

\* POST /api/cart/:cartId/checkout up to the test of cart.items.length
CheckoutCheck(W, cartId, t) ==
  LET W1 == GetCart(W, cartId, t) IN
  IF ~IsCart(W1.carts, cartId)
  THEN Checked(W1, Locals(Some(Thrown), <<>>, 0))
  ELSE IF Len(W1.heap[W1.carts[cartId].items]) = 0
  THEN Checked(W1, Locals(Some(ErrorResponse(400, "Cart is empty")), <<>>, 0))
  ELSE Checked(W1, Locals(None, <<>>, 0))

\* POST /api/cart/:cartId/checkout from const receipt on.
CheckoutAct(W, cartId, locals, t) ==
  IF locals.early # None
  THEN Outcome(W, locals.early[1], None)
  ELSE
  LET cart    == W.carts[cartId]
      items   == W.heap[cart.items]
      copy    == NewArray(InUse(W.carts, W.receipts), "receipt", "")
      receipt == BuildReceipt(cart, items, copy, t)
      H2      == (copy :> items) @@ W.heap
      a       == NewArray(InUse(Without(W.carts, cartId), W.receipts)
                            \cup {receipt.items},
                          "cart", cartId)
      C3      == Put(W.carts, cartId, EmptyCart(cartId, a, t))
      H3      == (a :> <<>>) @@ H2
  IN
  Outcome(World(C3, H3, W.receipts),
          [Response(200) EXCEPT !.receipt = Some(ReceiptJson(receipt, H3))],
          Some(receipt))

(* --------------------------- the state machine -------------------------- *)

\* A request: the route and what the client sent with it.
Request(op, tag_id, cart_id) == [op |-> op, tag_id |-> tag_id, cart_id |-> cart_id]

\* const carts = {}; no request served yet.
Init ==
  /\ carts = <<>>
  /\ heap = <<>>
  /\ receipts = <<>>
  /\ now = 0
  /\ last = [req |-> Request("", None, None), res |-> Response(0),
             again |-> FALSE, created |-> {}]
  /\ inflight = <<>>
  /\ handled = <<>>

\* What `last` records of a request served with outcome `out`: the request,
\* the response sent, whether the request before it was the same request,
\* and the cart ids that the store holds only since this request.
Exchange(req, out) ==
  [req     |-> req,
   res     |-> out.res,
   again   |-> (req = last.req),
   created |-> DOMAIN out.world.carts \ DOMAIN carts]

\* Each request is served in one step (\E out \in {...} names the handler's
\* outcome).  The receipt object a checkout builds is garbage once the
\* response is written, and so are the arrays nothing refers to any more.

Scan(body) ==
  \E out \in {ScanHandler(World(carts, heap, receipts), body, now)} :
    /\ carts' = out.world.carts
    /\ receipts' = receipts
    /\ heap' = Collect(out.world.carts, out.world.heap, receipts)
    /\ last' = Exchange(Request("scan", body.tag_id, body.cart_id), out)
    /\ UNCHANGED <<now, inflight, handled>>

Cart(cartId) ==
  \E out \in {CartHandler(World(carts, heap, receipts), cartId, now)} :
    /\ carts' = out.world.carts
    /\ receipts' = receipts
    /\ heap' = Collect(out.world.carts, out.world.heap, receipts)
    /\ last' = Exchange(Request("cart", None, Some(cartId)), out)
    /\ UNCHANGED <<now, inflight, handled>>

Clear(cartId) ==
  \E out \in {ClearHandler(World(carts, heap, receipts), cartId, now)} :
    /\ carts' = out.world.carts
    /\ receipts' = receipts
    /\ heap' = Collect(out.world.carts, out.world.heap, receipts)
    /\ last' = Exchange(Request("clear", None, Some(cartId)), out)
    /\ UNCHANGED <<now, inflight, handled>>

Checkout(cartId) ==
  \E out \in {CheckoutHandler(World(carts, heap, receipts), cartId, now)} :
    /\ carts' = out.world.carts
    /\ receipts' = receipts
    /\ heap' = Collect(out.world.carts, out.world.heap, receipts)
    /\ last' = Exchange(Request("checkout", None, Some(cartId)), out)
    /\ UNCHANGED <<now, inflight, handled>>

\* A checkout whose receipt object is kept in the history `receipts`.
CheckoutKept(cartId) ==
  \E out \in {CheckoutHandler(World(carts, heap, receipts), cartId, now)} :
    /\ Len(receipts) + Len(out.built) <= MaxReceipts
    /\ carts' = out.world.carts
    /\ receipts' = receipts \o out.built
    /\ heap' = Collect(out.world.carts, out.world.heap, receipts \o out.built)
    /\ last' = Exchange(Request("checkout", None, Some(cartId)), out)
    /\ UNCHANGED <<now, inflight, handled>>

Simulate(tagId) ==
  \E out \in {SimulateHandler(World(carts, heap, receipts), tagId, now)} :
    /\ carts' = out.world.carts
    /\ receipts' = receipts
    /\ heap' = Collect(out.world.carts, out.world.heap, receipts)
    /\ last' = Exchange(Request("simulate", Some(tagId), None), out)
    /\ UNCHANGED <<now, inflight, handled>>

\* Time passes between two requests.
Tick ==
  /\ now < MaxClock
  /\ now' = now + 1
  /\ UNCHANGED <<carts, heap, receipts, last, inflight, handled>>

Next ==
  \/ \E body \in ScanSent : Scan(body)
  \/ \E cartId \in CartIds : Cart(cartId)
  \/ \E cartId \in CartIds : Clear(cartId)
  \/ \E cartId \in CartIds : Checkout(cartId)
  \/ \E tagId \in PathSent : Simulate(tagId)
  \/ Tick

Spec == Init /\ [][Next]_vars

NextReceipts ==
  \/ \E body \in ScanKept : Scan(body)
  \/ \E cartId \in CartIdsKept : Cart(cartId)
  \/ \E cartId \in CartIdsKept : Clear(cartId)
  \/ \E cartId \in CartIdsKept : CheckoutKept(cartId)
  \/ \E tagId \in PathKept : Simulate(tagId)
  \/ Tick

SpecReceipts == Init /\ [][NextReceipts]_vars

(* ------------------ requests waiting for one another ------------------- *)
\* Requests arrive while others are not answered yet: `inflight` holds those
\* received and not answered, in the order of their arrival, each with the
\* position of its handler ("queued": not started, "checked": between its
\* reads and its writes) and the handler's locals; `handled` lists the
\* requests answered, in the order of the answers, with the clock value the
\* handler read, the response, and the number of requests that had been
\* answered when the request arrived.

\* The requests sent to this server: two spellings of one tag through scan
\* and simulate, a clear and a checkout, all on the cart "default".
RequestsConcurrent ==
  { Request("scan", Some(MilkTagSpaced), None),
    Request("simulate", Some(MilkTag), None),
    Request("clear", None, Some("default")),
    Request("checkout", None, Some("default")) }

\* The router, for the routes that change carts: the handler's reads.
Check(W, req, t) ==
  CASE req.op = "scan"     -> ScanCheck(W, Body(req.tag_id, req.cart_id), t)
    [] req.op = "simulate" -> SimulateCheck(W, req.tag_id[1], t)
    [] req.op = "clear"    -> ClearCheck(W, req.cart_id[1], t)
    [] req.op = "checkout" -> CheckoutCheck(W, req.cart_id[1], t)

\* The router: the handler's writes.
Act(W, req, locals, t) ==
  CASE req.op = "scan"     -> ScanAct(W, Body(req.tag_id, req.cart_id), locals, t)
    [] req.op = "simulate" -> SimulateAct(W, locals, t)
    [] req.op = "clear"    -> ClearAct(W, req.cart_id[1], locals, t)
    [] req.op = "checkout" -> CheckoutAct(W, req.cart_id[1], locals, t)

\* The router: the whole handler.
Dispatch(W, req, t) ==
  CASE req.op = "scan"     -> ScanHandler(W, Body(req.tag_id, req.cart_id), t)
    [] req.op = "simulate" -> SimulateHandler(W, req.tag_id[1], t)
    [] req.op = "clear"    -> ClearHandler(W, req.cart_id[1], t)
    [] req.op = "checkout" -> CheckoutHandler(W, req.cart_id[1], t)
    [] req.op = "cart"     -> CartHandler(W, req.cart_id[1], t)

\* A runtime that starts a handler while another one is between its reads
\* and its writes (parallel threads, or a handler that awaits).
MayBeginAlways(waiting) == TRUE

\* The event loop calls a handler only when no other handler is running:
\* the handlers are synchronous functions, they return before the next
\* callback is called.
MayBegin(waiting) == \A i \in 1..Len(waiting) : waiting[i].pc = "queued"

\* A request arrives and its body is parsed.
Receive(req) ==
  /\ Len(inflight) + Len(handled) < MaxRequests
  /\ inflight' = Append(inflight,
                        [req      |-> req,
                         pc       |-> "queued",
                         locals   |-> Locals(None, <<>>, 0),
                         received |-> Len(handled)])
  /\ UNCHANGED <<carts, heap, receipts, now, last, handled>>

\* The handler of the i-th waiting request is called and does its reads.
Begin(i) ==
  /\ i <= Len(inflight)
  /\ inflight[i].pc = "queued"
  /\ MayBegin(inflight)
  /\ \E chk \in {Check(World(carts, heap, receipts), inflight[i].req, now)} :
       /\ carts' = chk.world.carts
       /\ heap' = Collect(chk.world.carts, chk.world.heap, receipts)
       /\ inflight' = [inflight EXCEPT ![i].pc = "checked",
                                       ![i].locals = chk.locals]
  /\ UNCHANGED <<receipts, now, last, handled>>

\* The handler of the i-th waiting request does its writes and answers.
End(i) ==
  /\ i <= Len(inflight)
  /\ inflight[i].pc = "checked"
  /\ \E out \in {Act(World(carts, heap, receipts), inflight[i].req,
                     inflight[i].locals, now)} :
       /\ carts' = out.world.carts
       /\ heap' = Collect(out.world.carts, out.world.heap, receipts)
       /\ handled' = Append(handled,
                            [req      |-> inflight[i].req,
                             t        |-> now,
                             res      |-> out.res,
                             received |-> inflight[i].received])
  /\ inflight' = SubSeq(inflight, 1, i - 1) \o SubSeq(inflight, i + 1, Len(inflight))
  /\ UNCHANGED <<receipts, now, last>>

\* The requests of this server all arrive and are answered within one unit
\* of the clock.
NextConcurrent ==
  \/ \E req \in RequestsConcurrent : Receive(req)
  \/ \E i \in 1..MaxRequests : Begin(i)
  \/ \E i \in 1..MaxRequests : End(i)

SpecConcurrent == Init /\ [][NextConcurrent]_vars

(* --------------------------- the store alone ---------------------------- *)
\* The server seen through its cart store only: the requests that can change
\* the store are served one after the other and nothing is recorded of the
\* exchanges.

RequestsStore ==
  { Request("scan", Some(MilkTag), Some("default")),
    Request("scan", Some(MilkTagSpaced), Some("default")),
    Request("scan", Some(BreadTag), None),
    Request("scan", Some(MilkTag), Some("c1")),
    Request("scan", Some(BreadTag), Some("constructor")),
    Request("simulate", Some(MilkTag), None) }
  \cup {Request(op, None, Some(cartId)) :
          op \in {"cart", "clear", "checkout"}, cartId \in CartIds}

Serve(req) ==
  \E out \in {Dispatch(World(carts, heap, receipts), req, now)} :
    /\ carts' = out.world.carts
    /\ heap' = Collect(out.world.carts, out.world.heap, receipts)
    /\ UNCHANGED <<receipts, now, last, inflight, handled>>

NextStore ==
  \/ \E req \in RequestsStore : Serve(req)
  \/ Tick

SpecStore == Init /\ [][NextStore]_vars

(* ------------------------------- claims -------------------------------- *)
\* \A out \in {e} : P(out) states P of the one value e.

\* The program's objects in the current state.
Here == World(carts, heap, receipts)

\* The items of the cart stored under cartId (none without such a cart).
ItemsOf(W, cartId) ==
  IF IsCart(W.carts, cartId) THEN W.heap[W.carts[cartId].items] ELSE <<>>

\* The total of the cart stored under cartId (0 without such a cart).
TotalOf(W, cartId) ==
  IF IsCart(W.carts, cartId) THEN W.carts[cartId].total ELSE 0

RECURSIVE SumPrices(_)
SumPrices(items) ==
  IF Len(items) = 0 THEN 0 ELSE items[1].price + SumPrices(Tail(items))

\* C1: in every reachable state, every stored cart's total is the sum of
\* the prices of the items in its item list.
C1_TotalIsSumOfPrices ==
  \A cartId \in DOMAIN carts :
    carts[cartId].total = SumPrices(heap[carts[cartId].items])

\* A scan has removed the first of two items: the cart "default" is left
\* with the bread alone.
C1_Witness ==
  /\ last.req.op = "scan"
  /\ last.res.status = 200
  /\ last.res.action = "removed"
  /\ IsCart(carts, "default")
  /\ Len(ItemsOf(Here, "default")) = 1
  /\ ItemsOf(Here, "default")[1].tag_id = BreadTag
  /\ carts["default"].total = 30

\* C2: from every reachable state, for every scan body and whatever time
\* passes in between, two successful scans of the same body in a row leave
\* the total and the item count of the cart as they were before the first.
C2_ScanTwiceRestoresTotalAndCount ==
  \A body \in ScanBodies :
    \A first \in {ScanHandler(Here, body, now)} :
      first.res.status = 200 =>
        \A t2 \in now..MaxClock :
        \A second \in {ScanHandler(first.world, body, t2)} :
        \A cartId \in {CartIdOf(body)} :
          second.res.status = 200 =>
            /\ TotalOf(second.world, cartId) = TotalOf(Here, cartId)
            /\ Len(ItemsOf(second.world, cartId)) = Len(ItemsOf(Here, cartId))
            /\ second.res.cart_total = TotalOf(Here, cartId)
            /\ second.res.cart_items = Len(ItemsOf(Here, cartId))

\* The same successful scan has been served twice in a row on a cart that
\* held the tag and another item: removed, then added again.
C2_Witness ==
  /\ last.req.op = "scan"
  /\ last.again
  /\ last.res.status = 200
  /\ last.res.action = "added"
  /\ last.res.cart_items = 2
  /\ last.res.cart_total = 70

\* C3: from every reachable state, a checkout of a cart with at least one
\* item answers with a receipt whose items are the cart's items in the same
\* order, whose total is the cart's total and whose itemCount is the number
\* of items, and leaves under that id a cart with no items and total 0.
C3_CheckoutReceiptAndReset ==
  \A cartId \in CartIds :
    (IsCart(carts, cartId) /\ Len(ItemsOf(Here, cartId)) >= 1) =>
      \A out \in {CheckoutHandler(Here, cartId, now)} :
      /\ out.res.status = 200
      /\ out.res.receipt # None
      /\ out.res.receipt[1].items = ItemsOf(Here, cartId)
      /\ out.res.receipt[1].total = carts[cartId].total
      /\ out.res.receipt[1].itemCount = Len(ItemsOf(Here, cartId))
      /\ IsCart(out.world.carts, cartId)
      /\ ItemsOf(out.world, cartId) = <<>>
      /\ out.world.carts[cartId].total = 0

\* A checkout of a cart with two items has been served.
C3_Witness ==
  /\ last.req.op = "checkout"
  /\ last.res.status = 200
  /\ last.res.receipt # None
  /\ last.res.receipt[1].itemCount = 2
  /\ Len(last.res.receipt[1].items) = 2
  /\ last.res.receipt[1].total = 70
  /\ ItemsOf(Here, last.req.cart_id[1]) = <<>>
  /\ TotalOf(Here, last.req.cart_id[1]) = 0

\* The stored carts with their items written out.
StoreOf(W) == [cartId \in DOMAIN W.carts |-> CartJson(W.carts[cartId], W.heap)]

\* C4 as claimed: from every reachable state, a checkout of a cart with zero
\* items (an empty stored cart, or an id with no stored cart) answers 400,
\* builds no receipt and leaves the cart store unchanged.
C4_EmptyCheckoutLeavesStore ==
  \A cartId \in CartIds :
    (~IsCart(carts, cartId) \/ Len(ItemsOf(Here, cartId)) = 0) =>
      \A out \in {CheckoutHandler(Here, cartId, now)} :
      /\ out.res.status = 400
      /\ out.built = None
      /\ StoreOf(out.world) = StoreOf(Here)

\* C4 as amended: from every reachable state, a checkout of an empty stored
\* cart answers 400, builds no receipt and leaves the cart store unchanged;
\* a checkout of an id under which the store holds nothing answers 400,
\* builds no receipt, stores an empty cart with total 0 under that id and
\* leaves every other cart unchanged.
C4_EmptyCheckoutCreatesLazily ==
  \A cartId \in CartIds :
    \A out \in {CheckoutHandler(Here, cartId, now)} :
    /\ (IsCart(carts, cartId) /\ Len(ItemsOf(Here, cartId)) = 0) =>
         /\ out.res.status = 400
         /\ out.res.error = "Cart is empty"
         /\ out.res.receipt = None
         /\ out.built = None
         /\ StoreOf(out.world) = StoreOf(Here)
    /\ (cartId \notin DOMAIN carts /\ cartId \notin InheritedKeys) =>
         /\ out.res.status = 400
         /\ out.res.error = "Cart is empty"
         /\ out.res.receipt = None
         /\ out.built = None
         /\ DOMAIN out.world.carts = DOMAIN carts \cup {cartId}
         /\ ItemsOf(out.world, cartId) = <<>>
         /\ TotalOf(out.world, cartId) = 0
         /\ \A other \in DOMAIN carts :
              StoreOf(out.world)[other] = StoreOf(Here)[other]

\* A checkout has been refused on an id that had no cart, which now has an
\* empty one, while another cart holds items.
C4_Witness ==
  /\ last.req.op = "checkout"
  /\ last.req.cart_id = Some("c1")
  /\ last.res.status = 400
  /\ last.created = {"c1"}
  /\ ItemsOf(Here, "c1") = <<>>
  /\ TotalOf(Here, "c1") = 0
  /\ Len(ItemsOf(Here, "default")) = 2

\* C5: from every reachable state, a scan or a simulate of a tag that is not
\* in the catalog after normalization answers 404 and changes nothing: no
\* cart changes and none is created.
C5_UnknownTagChangesNothing ==
  /\ \A body \in ScanBodies :
       (body.tag_id \in {Some(UnknownTag), Some(BlankTag)}) =>
         \A out \in {ScanHandler(Here, body, now)} :
         /\ out.res.status = 404
         /\ out.res.error = "Unknown product"
         /\ out.world = Here
  /\ \A tagId \in {UnknownTag, BlankTag} :
       \A out \in {SimulateHandler(Here, tagId, now)} :
       /\ out.res.status = 404
       /\ out.res.error = "Unknown product"
       /\ out.world = Here

\* A scan of an unknown tag has been refused for a cart id that still has
\* no cart.
C5_Witness ==
  /\ last.req.op = "scan"
  /\ last.req.tag_id = Some(UnknownTag)
  /\ last.req.cart_id = Some("c1")
  /\ last.res.status = 404
  /\ ~IsCart(carts, "c1")
  /\ Len(ItemsOf(Here, "default")) = 1

\* C6: from every reachable state, a scan whose tag_id is missing or empty
\* answers 400 "tag_id is required" and changes nothing: no cart changes
\* and none is created.
C6_MissingTagIsInvalidInput ==
  \A body \in ScanBodies :
    (body.tag_id \in {None, Some(EmptyTag)}) =>
      \A out \in {ScanHandler(Here, body, now)} :
      /\ out.res.status = 400
      /\ out.res.error = "tag_id is required"
      /\ out.world = Here

\* A scan without tag_id has been refused for a cart id that still has no
\* cart.
C6_Witness ==
  /\ last.req.op = "scan"
  /\ last.req.tag_id = None
  /\ last.req.cart_id = Some("c1")
  /\ last.res.status = 400
  /\ ~IsCart(carts, "c1")

\* C7: from every reachable state and for every cart id, a clear answers
\* 200 and leaves under that id a cart with no items and total 0, which the
\* response shows; under an id with no cart the store is then what a lazy
\* creation leaves; no other cart changes.
C7_ClearAlwaysEmpties ==
  \A cartId \in CartIds :
    \A out \in {ClearHandler(Here, cartId, now)} :
    /\ out.res.status = 200
    /\ IsCart(out.world.carts, cartId)
    /\ ItemsOf(out.world, cartId) = <<>>
    /\ TotalOf(out.world, cartId) = 0
    /\ out.res.cart = Some(StoreOf(out.world)[cartId])
    /\ (cartId \notin DOMAIN carts /\ cartId \notin InheritedKeys) =>
         StoreOf(out.world) = StoreOf(GetCart(Here, cartId, now))
    /\ \A other \in DOMAIN carts \ {cartId} :
         StoreOf(out.world)[other] = StoreOf(Here)[other]

\* A clear has been served on a cart that held two items.
C7_Witness ==
  /\ last.req.op = "clear"
  /\ last.req.cart_id = Some("default")
  /\ last.res.status = 200
  /\ ItemsOf(Here, "default") = <<>>
  /\ TotalOf(Here, "default") = 0
  /\ last.res.cart[1].items = <<>>
  /\ IsCart(carts, "c1")
  /\ Len(ItemsOf(Here, "c1")) = 1

\* C8: the receipts built by checkouts have pairwise different receipt
\* identifiers, also when the clock did not advance between two checkouts.
C8_ReceiptIdsUnique ==
  \A i, j \in 1..Len(receipts) :
    i # j => receipts[i].receiptId # receipts[j].receiptId

\* C9: no step changes a receipt built earlier: every receipt of the
\* history keeps its identifier, items, total, itemCount and checkout time.
C9_ReceiptsNeverChange ==
  [][\A i \in 1..Len(receipts) :
       /\ i <= Len(receipts')
       /\ ReceiptJson(receipts'[i], heap') = ReceiptJson(receipts[i], heap)]_vars

\* After the checkout that built the first receipt, a scan has put an item
\* into the same cart again; the receipt still shows the checkout.
C9_Witness ==
  /\ Len(receipts) = 1
  /\ last.req.op = "scan"
  /\ last.req.cart_id = None
  /\ last.res.status = 200
  /\ last.res.action = "added"
  /\ last.res.cart[1].createdAt = receipts[1].checkoutTime
  /\ Len(ItemsOf(Here, "default")) = 1
  /\ ReceiptJson(receipts[1], heap).items # <<>>
  /\ ReceiptJson(receipts[1], heap).items[1].scannedAt < now

\* C10: from every reachable state and for every tag a path can carry,
\* GET /api/simulate/:tagId and POST /api/scan with that tag and cart_id
\* "default" send the same response and leave the same store.
C10_SimulateIsScanOnDefault ==
  \A tagId \in PathTags :
    \A sim \in {SimulateHandler(Here, tagId, now)} :
    \A scan \in {ScanHandler(Here, Body(Some(tagId), Some("default")), now)} :
        /\ sim.res = scan.res
        /\ sim.world = scan.world
        /\ sim.built = scan.built

\* A simulate has removed an item from the cart "default", which still
\* holds the bread.
C10_Witness ==
  /\ last.req.op = "simulate"
  /\ last.res.status = 200
  /\ last.res.action = "removed"
  /\ last.res.cart_items = 1
  /\ last.res.cart_total = 30
  /\ TotalOf(Here, "default") = 30

\* C11: from every reachable state and for every cart id, a retrieval
\* answers 200 with the cart stored under the id; an existing cart and the
\* rest of the store are left exactly as they were, and under an id without
\* a cart a new cart with that id, no items and total 0 is stored and
\* returned, every other cart unchanged.
C11_RetrievalReturnsOrCreates ==
  \A cartId \in CartIds :
    \A out \in {CartHandler(Here, cartId, now)} :
    /\ out.res.status = 200
    /\ IsCart(out.world.carts, cartId)
    /\ out.res.cart = Some(StoreOf(out.world)[cartId])
    /\ IsCart(carts, cartId) => out.world = Here
    /\ ~IsCart(carts, cartId) =>
         /\ out.world.carts[cartId].id = cartId
         /\ ItemsOf(out.world, cartId) = <<>>
         /\ TotalOf(out.world, cartId) = 0
    /\ \A other \in DOMAIN carts \ {cartId} :
         StoreOf(out.world)[other] = StoreOf(Here)[other]

\* C12: in every reachable state, no cart's item list has two entries with
\* the same tag_id.
C12_OneItemPerTag ==
  \A cartId \in DOMAIN carts :
    \A i, j \in 1..Len(heap[carts[cartId].items]) :
      i # j => heap[carts[cartId].items][i].tag_id
                 # heap[carts[cartId].items][j].tag_id

\* A scan under the spaced spelling of the milk tag has added the milk
\* behind the bread: two entries, two tags.
C12_Witness ==
  /\ last.req.op = "scan"
  /\ last.req.tag_id = Some(MilkTagSpaced)
  /\ last.res.status = 200
  /\ last.res.action = "added"
  /\ Len(ItemsOf(Here, "default")) = 2
  /\ ItemsOf(Here, "default")[1].tag_id = BreadTag
  /\ ItemsOf(Here, "default")[2].tag_id = Normalize(MilkTag)
  /\ ItemsOf(Here, "default")[1].scannedAt < ItemsOf(Here, "default")[2].scannedAt

\* The tags of an item list, in the order of the list.
TagsOf(items) == [i \in 1..Len(items) |-> items[i].tag_id]

\* The sequence s without its entry at index i.
Dropped(s, i) == SubSeq(s, 1, i - 1) \o SubSeq(s, i + 1, Len(s))

\* C13: from every reachable state and for every scan body, a scan that
\* answers 200 reports "removed" exactly when the cart held the normalized
\* tag; it then leaves the list without that one entry (the other items in
\* their order) and the total lower by the catalog price; otherwise it
\* reports "added" and leaves the list with one item for the tag appended
\* and the total higher by the price; cart_total and cart_items of the
\* response are the total and the item count afterwards.
C13_ScanAddsOrRemovesOne ==
  \A body \in ScanBodies :
    \A out \in {ScanHandler(Here, body, now)} :
      out.res.status = 200 =>
        \A cartId \in {IF body.cart_id = None THEN "default" ELSE body.cart_id[1]} :
        \A tag \in {Normalize(body.tag_id[1])} :
        \A before \in {ItemsOf(Here, cartId)} :
        \A after \in {ItemsOf(out.world, cartId)} :
        \A held \in {{i \in 1..Len(before) : before[i].tag_id = tag}} :
          /\ out.res.action \in {"removed", "added"}
          /\ out.res.action = "removed" <=> held # {}
          /\ out.res.action = "removed" =>
               /\ \E i \in held : after = Dropped(before, i)
               /\ TotalOf(out.world, cartId)
                    = TotalOf(Here, cartId) - products[tag].price
          /\ out.res.action = "added" =>
               /\ Len(after) = Len(before) + 1
               /\ SubSeq(after, 1, Len(before)) = before
               /\ after[Len(after)].tag_id = tag
               /\ after[Len(after)].price = products[tag].price
               /\ TotalOf(out.world, cartId)
                    = TotalOf(Here, cartId) + products[tag].price
          /\ out.res.cart_total = TotalOf(out.world, cartId)
          /\ out.res.cart_items = Len(after)
          /\ out.res.price = products[tag].price

\* The cart "default" holds the bread and, scanned later, the milk behind
\* it; a scan of the bread from here removes the first of the two entries.
C13_Witness ==
  /\ TagsOf(ItemsOf(Here, "default")) = <<BreadTag, Normalize(MilkTag)>>
  /\ ItemsOf(Here, "default")[1].scannedAt < ItemsOf(Here, "default")[2].scannedAt
  /\ \E out \in {ScanHandler(Here, Body(Some(BreadTag), None), now)} :
       /\ out.res.action = "removed"
       /\ out.res.cart_items = 1
       /\ out.res.cart_total = 40

\* C14 as claimed: from every reachable state, for every scan body and
\* whatever time passes in between, two successful scans of the same body in
\* a row leave the cart's tags in the order they had before the first scan,
\* and its total as it was.
C14_ScanTwiceRestoresList ==
  \A body \in ScanBodies :
    \A first \in {ScanHandler(Here, body, now)} :
      first.res.status = 200 =>
        \A t2 \in now..MaxClock :
        \A second \in {ScanHandler(first.world, body, t2)} :
        \A cartId \in {CartIdOf(body)} :
          second.res.status = 200 =>
            /\ TagsOf(ItemsOf(second.world, cartId)) = TagsOf(ItemsOf(Here, cartId))
            /\ TotalOf(second.world, cartId) = TotalOf(Here, cartId)

\* C14 as amended: two successful scans of the same body in a row leave the
\* cart's total and the set of tags it holds as they were.  When the tag was
\* absent before the first scan the item list is the one before the first
\* scan; when it was present, the list is the one before without the tag's
\* entry, followed by a new entry for the tag with the time of the second
\* scan.
C14_ScanTwiceRestoresOrMovesLast ==
  \A body \in ScanBodies :
    \A first \in {ScanHandler(Here, body, now)} :
      first.res.status = 200 =>
        \A t2 \in now..MaxClock :
        \A second \in {ScanHandler(first.world, body, t2)} :
        \A cartId \in {CartIdOf(body)} :
          second.res.status = 200 =>
            LET tag    == Normalize(body.tag_id[1])
                before == ItemsOf(Here, cartId)
                after  == ItemsOf(second.world, cartId)
                held   == {i \in 1..Len(before) : before[i].tag_id = tag}
            IN
            /\ TotalOf(second.world, cartId) = TotalOf(Here, cartId)
            /\ {after[i].tag_id : i \in 1..Len(after)}
                 = {before[i].tag_id : i \in 1..Len(before)}
            /\ held = {} => after = before
            /\ held # {} =>
                 \E i \in held :
                   /\ Len(after) = Len(before)
                   /\ SubSeq(after, 1, Len(after) - 1) = Dropped(before, i)
                   /\ after[Len(after)] =
                        [before[i] EXCEPT !.scannedAt = t2]

\* The cart "default" holds the milk in front of the bread; two scans of
\* the milk from here, the second one later, remove it and add it again
\* behind the bread.
C14_Witness ==
  /\ TagsOf(ItemsOf(Here, "default")) = <<Normalize(MilkTag), BreadTag>>
  /\ now < MaxClock
  /\ \E first \in {ScanHandler(Here, Body(Some(MilkTag), Some("default")), now)} :
     \E second \in {ScanHandler(first.world, Body(Some(MilkTag), Some("default")),
                                now + 1)} :
       /\ first.res.action = "removed"
       /\ second.res.action = "added"
       /\ TagsOf(ItemsOf(second.world, "default")) = <<BreadTag, Normalize(MilkTag)>>
       /\ second.res.cart_total = TotalOf(Here, "default")

\* The store after the first k answered requests, had they been served one
\* after the other, each handler as a whole, on a server just started.
RECURSIVE SequentialWorld(_)
SequentialWorld(k) ==
  IF k = 0
  THEN World(<<>>, <<>>, <<>>)
  ELSE Dispatch(SequentialWorld(k - 1), handled[k].req, handled[k].t).world

\* The k-th answered request changed the cart "default" for the tag `tag`.
Toggled(k, tag) ==
  /\ handled[k].res.status = 200
  /\ \/ /\ handled[k].req.op = "scan"
        /\ handled[k].req.cart_id \in {None, Some("default")}
     \/ handled[k].req.op = "simulate"
  /\ Normalize(handled[k].req.tag_id[1]) = tag

\* C15: with requests answered while others are waiting, every response is
\* the one the request gets when the answered requests are served one after
\* the other in the order of their answers, and whenever no handler is
\* between its reads and its writes the carts are the ones that sequential
\* service leaves; no cart has two entries for a tag; and of two requests
\* that were waiting together, toggle the same tag and are answered one
\* right after the other, the second does not report "added" when the first
\* did.
C15_HandlersRunToCompletion ==
  /\ \A k \in 1..Len(handled) :
       handled[k].res
         = Dispatch(SequentialWorld(k - 1), handled[k].req, handled[k].t).res
  /\ (\A i \in 1..Len(inflight) : inflight[i].pc = "queued") =>
       StoreOf(SequentialWorld(Len(handled))) = StoreOf(Here)
  /\ \A cartId \in DOMAIN carts :
       \A i, j \in 1..Len(heap[carts[cartId].items]) :
         i # j => heap[carts[cartId].items][i].tag_id
                    # heap[carts[cartId].items][j].tag_id
  /\ \A k \in 1..(Len(handled) - 1) :
       ( /\ handled[k + 1].received < k
         /\ Toggled(k, Normalize(MilkTag))
         /\ Toggled(k + 1, Normalize(MilkTag))
         /\ handled[k].res.action = "added" ) =>
           /\ handled[k + 1].res.action = "removed"
           /\ handled[k + 1].res.cart_items = handled[k].res.cart_items - 1

\* A scan and a simulate of the same tag, absent from the cart, were waiting
\* together before either was answered.  The first answer reported "added",
\* the second "removed", and the cart is empty again.
C15_Witness ==
  /\ Len(handled) = 2
  /\ inflight = <<>>
  /\ handled[1].req.op = "scan"
  /\ handled[2].req.op = "simulate"
  /\ handled[1].received = 0
  /\ handled[2].received = 0
  /\ handled[1].res.action = "added"
  /\ handled[2].res.action = "removed"
  /\ ItemsOf(Here, "default") = <<>>
  /\ TotalOf(Here, "default") = 0

\* C16: no step removes a cart id from the store.
C16_CartIdsStay ==
  [][DOMAIN carts \subseteq DOMAIN carts']_vars

\* A checkout has emptied the cart "c1", created by a scan; it is still in
\* the store, next to "constructor", which a clear stored, and "default".
C16_Witness ==
  /\ last.req.op = "checkout"
  /\ last.req.cart_id = Some("c1")
  /\ last.res.status = 200
  /\ DOMAIN carts = {"default", "c1", "constructor"}
  /\ ItemsOf(Here, "c1") = <<>>

\* The raw tags a and b differ at most in letter case and whitespace.
Alike(a, b) ==
  LET x == SelectSeq(a, NotSpace)
      y == SelectSeq(b, NotSpace)
  IN  /\ Len(x) = Len(y)
      /\ \A i \in 1..Len(x) : ToUpperChar(x[i]) = ToUpperChar(y[i])

\* The pairs of different raw tags that are alike.
Spellings == {p \in PathTags \X PathTags : p[1] # p[2] /\ Alike(p[1], p[2])}

\* C17: from every reachable state, for every cart id and every two
\* different raw tags that differ only in case and whitespace, one of which
\* a scan accepts: a scan of the other gives the same response and store
\* (the same product, the same entry toggled), a simulate of the other
\* answers with the same product, and when the first scan adds an item, a
\* scan of the other right after it removes that item and leaves the item
\* list and the total as they were.
C17_SpellingsToggleOneEntry ==
  \A p \in Spellings : \A cart_id \in ScanCartIds :
    \A first \in {ScanHandler(Here, Body(Some(p[1]), cart_id), now)} :
      first.res.status = 200 =>
        /\ \A other \in {ScanHandler(Here, Body(Some(p[2]), cart_id), now)} :
             /\ other.res = first.res
             /\ other.world = first.world
        /\ \A sim \in {SimulateHandler(Here, p[2], now).res} :
             /\ sim.status = 200
             /\ sim.product = first.res.product
        /\ first.res.action = "added" =>
             \A second \in {ScanHandler(first.world, Body(Some(p[2]), cart_id), now)} :
             \A cartId \in {IF cart_id = None THEN "default" ELSE cart_id[1]} :
               /\ second.res.status = 200
               /\ second.res.action = "removed"
               /\ second.res.product = first.res.product
               /\ second.res.cart_items = first.res.cart_items - 1
               /\ ItemsOf(second.world, cartId) = ItemsOf(Here, cartId)
               /\ TotalOf(second.world, cartId) = TotalOf(Here, cartId)

\* The cart "c1" holds the milk alone, added under the lower-case spelling
\* (the only one sent for this cart); a scan of the spaced upper-case
\* spelling from here removes it.
C17_Witness ==
  /\ TagsOf(ItemsOf(Here, "c1")) = <<Normalize(MilkTag)>>
  /\ \E out \in {ScanHandler(Here, Body(Some(MilkTagSpaced), Some("c1")), now)} :
       /\ out.res.status = 200
       /\ out.res.action = "removed"
       /\ out.res.cart_items = 0
       /\ ItemsOf(out.world, "c1") = <<>>

\* Tags made of whitespace only.
WhitespaceTags == {<<" ">>, <<"\t">>, <<" ", "\t", " ">>}

\* C18: from every reachable state, a scan whose tag_id is a non-empty
\* string of whitespace, for any cart_id, answers 404 "Unknown product" (not
\* 400) and leaves the store as it was.
C18_WhitespaceTagIsUnknownProduct ==
  \A tag \in WhitespaceTags : \A cart_id \in ScanCartIds :
    \A out \in {ScanHandler(Here, Body(Some(tag), cart_id), now)} :
      /\ out.res.status = 404
      /\ out.res.error = "Unknown product"
      /\ out.world = Here
      /\ out.built = None

\* A scan of the tag " " has been answered 404 for the cart id "c1", which
\* has no cart, while the cart "default" holds two items.
C18_Witness ==
  /\ last.req.op = "scan"
  /\ last.req.tag_id = Some(BlankTag)
  /\ last.res.status = 404
  /\ last.res.error = "Unknown product"
  /\ last.created = {}
  /\ ~IsCart(carts, "c1")
  /\ Len(ItemsOf(Here, "default")) = 2

\* The world W2 that a request addressed to cartId leaves has every other
\* stored cart as it is and nothing new under another id.
OthersUntouched(W2, cartId) ==
  /\ DOMAIN W2.carts \subseteq DOMAIN carts \cup {cartId}
  /\ \A other \in DOMAIN carts \ {cartId} :
       /\ other \in DOMAIN W2.carts
       /\ CartJson(W2.carts[other], W2.heap) = CartJson(carts[other], heap)

\* C19: from every reachable state, a scan (any body), a clear and a
\* checkout (any cart id), whatever they answer, leave the carts stored
\* under other ids than the one addressed as they were and store no cart
\* under another id; a simulate (any tag) does so for the cart "default".
C19_OtherCartsUntouched ==
  /\ \A body \in ScanBodies :
       \A W2 \in {ScanHandler(Here, body, now).world} :
         OthersUntouched(W2, IF body.cart_id = None THEN "default"
                                                    ELSE body.cart_id[1])
  /\ \A cartId \in CartIds :
       /\ \A W2 \in {ClearHandler(Here, cartId, now).world} :
            OthersUntouched(W2, cartId)
       /\ \A W2 \in {CheckoutHandler(Here, cartId, now).world} :
            OthersUntouched(W2, cartId)
  /\ \A tagId \in PathTags :
       \A W2 \in {SimulateHandler(Here, tagId, now).world} :
         OthersUntouched(W2, "default")

\* Three carts hold items: "default" two, "c1" and "constructor" one each;
\* a checkout of "c1" from here succeeds.
C19_Witness ==
  /\ Len(ItemsOf(Here, "default")) = 2
  /\ Len(ItemsOf(Here, "c1")) = 1
  /\ Len(ItemsOf(Here, "constructor")) = 1
  /\ \E out \in {CheckoutHandler(Here, "c1", now)} :
       /\ out.res.status = 200
       /\ ItemsOf(out.world, "c1") = <<>>
       /\ Len(ItemsOf(out.world, "default")) = 2

\* The item is the catalog's entry for its tag_id.
FromCatalog(item) ==
  /\ item.tag_id \in DOMAIN products
  /\ item.name = products[item.tag_id].name
  /\ item.price = products[item.tag_id].price
  /\ item.category = products[item.tag_id].category

\* C20: in every reachable state, every item of every stored cart and of
\* every receipt built carries a tag_id that is a catalog key, with that
\* catalog entry's name, price and category.
C20_ItemsAreCatalogEntries ==
  /\ \A cartId \in DOMAIN carts :
       \A i \in 1..Len(heap[carts[cartId].items]) :
         FromCatalog(heap[carts[cartId].items][i])
  /\ \A r \in 1..Len(receipts) :
       \A i \in 1..Len(heap[receipts[r].items]) :
         FromCatalog(heap[receipts[r].items][i])

\* Two receipts have been built, one with the milk and one with the bread,
\* and both carts hold an item again.
C20_Witness ==
  /\ Len(receipts) = 2
  /\ \E r \in 1..2 : TagsOf(heap[receipts[r].items]) = <<Normalize(MilkTag)>>
  /\ \E r \in 1..2 : TagsOf(heap[receipts[r].items]) = <<BreadTag>>
  /\ IsCart(carts, "default")
  /\ IsCart(carts, "c1")
  /\ Len(ItemsOf(Here, "default")) = 1
  /\ Len(ItemsOf(Here, "c1")) = 1
====
